---- MODULE Spec2Model ----
(***************************************************************************)
(* Connect-Four game engine (src/src/models/game.ts, second Game class,    *)
(* lines 514-1484) over the PostgreSQL tables of connect-four-schema.sql.  *)
(*                                                                         *)
(* The program keeps no state of its own: every handler is an async        *)
(* function that issues SQL statements one after the other through one     *)
(* shared client, with no transaction around them.  A statement is atomic; *)
(* between two statements of one handler the statements of other handlers  *)
(* may run.  One action of the model is therefore one SQL statement        *)
(* together with the synchronous code that runs on its result, up to the   *)
(* point where the handler issues its next statement, returns or throws.   *)
(* The shared client runs the statements in the order they were issued.    *)
(*                                                                         *)
(* Encoding of SQL NULL: a NULL player id is None, a NULL play_order is    *)
(* NoOrder, a NULL array (board, placed_pieces, winning_set) is <<>>.      *)
(* Through the operations modelled here placed_pieces is never the empty   *)
(* array, so <<>> is unambiguous.                                          *)
(***************************************************************************)
EXTENDS Integers, Sequences, FiniteSets, TLC

\* ------------------------------------------------------------- bounds
\* dropPiece calls are accepted while game_turns holds fewer rows than this.
MaxTurns == 4
\* addPlayers, removePlayer and start calls are accepted while fewer than this
\* many of them have been made.
MaxCalls == 3
\* how many un-awaited startTurn calls (spawned by start) may be in flight.
MaxDetached == 1

\* ---------------------------------------------------------- constants
\* gameState codes, game.ts:533: {0: not started, 1: started, 2: won, 3: tied}
NotStarted == 0
Started == 1
Won == 2
Tied == 3
\* game_state INTEGER DEFAULT 1 NOT NULL (connect-four-schema.sql:16)
GameStateDefault == 1
\* play_order INTEGER, nullable (connect-four-schema.sql:30): NULL
NoOrder == -1
\* a coordinate set holds four coordinates (game.ts:1419-1424)
LineLen == 4

None == "none"
Players == {"p1", "p2", "p3"}

\* the { height, width } given to Game.create: single columns of four and of
\* six rows, a single row of four cells, and two columns of two rows
BoardSizes == {<<4, 1>>, <<6, 1>>, <<1, 4>>, <<2, 2>>}

\* ------------------------------------------------------ board geometry
Rows(h) == 0 .. (h - 1)
Cols(w) == 0 .. (w - 1)

\* newBoardState[y][x] !== undefined, after _initializeMatrix filled h x w
Defined(h, w, y, x) == y \in Rows(h) /\ x \in Cols(w)

\* the four coordinates from (y,x) stepping by (dy,dx)
CoordSet(y, x, dy, dx) ==
    [k \in 1 .. LineLen |-> <<y + (k - 1) * dy, x + (k - 1) * dx>>]

\* a variant of _populateValidCoordSets that looks four cells to the right,
\* not three, for the far end of the right line
PopulateValidCoordSetsRightTooFar(h, w, y, x) ==
    (IF y - 3 \in Rows(h)
       THEN (IF Defined(h, w, y - 3, x) THEN <<CoordSet(y, x, -1, 0)>> ELSE <<>>)
            \o (IF Defined(h, w, y - 3, x - 3) THEN <<CoordSet(y, x, -1, -1)>> ELSE <<>>)
            \o (IF Defined(h, w, y - 3, x + 3) THEN <<CoordSet(y, x, -1, 1)>> ELSE <<>>)
       ELSE <<>>)
    \o (IF Defined(h, w, y, x - 3) THEN <<CoordSet(y, x, 0, -1)>> ELSE <<>>)
    \o (IF Defined(h, w, y, x + 4) THEN <<CoordSet(y, x, 0, 1)>> ELSE <<>>)

\* a variant of _populateValidCoordSets whose check of the left line looks at
\* the row only, not at the column x - 3
PopulateValidCoordSetsLeftUnchecked(h, w, y, x) ==
    (IF y - 3 \in Rows(h)
       THEN (IF Defined(h, w, y - 3, x) THEN <<CoordSet(y, x, -1, 0)>> ELSE <<>>)
            \o (IF Defined(h, w, y - 3, x - 3) THEN <<CoordSet(y, x, -1, -1)>> ELSE <<>>)
            \o (IF Defined(h, w, y - 3, x + 3) THEN <<CoordSet(y, x, -1, 1)>> ELSE <<>>)
       ELSE <<>>)
    \o (IF y \in Rows(h) THEN <<CoordSet(y, x, 0, -1)>> ELSE <<>>)
    \o (IF Defined(h, w, y, x + 3) THEN <<CoordSet(y, x, 0, 1)>> ELSE <<>>)

\* _populateValidCoordSets(y, x): up, upLeft, upRight (only when row y-3
\* exists), then left, right; each kept when its far end is defined.
PopulateValidCoordSets(h, w, y, x) ==
    (IF y - 3 \in Rows(h)
       THEN (IF Defined(h, w, y - 3, x) THEN <<CoordSet(y, x, -1, 0)>> ELSE <<>>)
            \o (IF Defined(h, w, y - 3, x - 3) THEN <<CoordSet(y, x, -1, -1)>> ELSE <<>>)
            \o (IF Defined(h, w, y - 3, x + 3) THEN <<CoordSet(y, x, -1, 1)>> ELSE <<>>)
       ELSE <<>>)
    \o (IF Defined(h, w, y, x - 3) THEN <<CoordSet(y, x, 0, -1)>> ELSE <<>>)
    \o (IF Defined(h, w, y, x + 3) THEN <<CoordSet(y, x, 0, 1)>> ELSE <<>>)

\* Game.createInitializedBoard({height, width})
CreateInitializedBoard(h, w) ==
    [y \in Rows(h) |->
        [x \in Cols(w) |->
            [playerId |-> None,
             validCoordSets |-> PopulateValidCoordSets(h, w, y, x)]]]

\* ------------------------------------------------------ checkForGameEnd
Continue == [threw |-> FALSE, state |-> Started, winningSet |-> <<>>,
             winningPlayerId |-> None]
TypeErrorResult == [threw |-> TRUE, state |-> Started, winningSet |-> <<>>,
                    winningPlayerId |-> None]

\* board[c[0]][c[1]].playerId
Occupant(b, c) == b[c[1]][c[2]].playerId

\* the inner loop of checkForGameEnd for placed piece i, from line j on
\* (j is 1-based here; the code's j is j-1).  The reference occupant is read
\* from validCoordSets[j][code j], which is undefined for code j = 4:
\* reading [0] of it throws a TypeError.
\* line 1330: the coordinate of candidate line j whose occupant is the
\* reference, "validCoordSets[j]" of the line (1-based here)
ReferenceIndex(j) == j

RECURSIVE ScanLines(_, _, _, _)
ScanLines(b, pp, i, j) ==
    LET lines == b[pp[i][1]][pp[i][2]].validCoordSets IN
    IF j > Len(lines) THEN Continue
    ELSE LET line == lines[j] IN
         IF ReferenceIndex(j) > Len(line) THEN TypeErrorResult
         ELSE LET playerId == Occupant(b, line[ReferenceIndex(j)]) IN
              IF playerId # None
                 /\ \A k \in 1 .. Len(line) :
                       Occupant(b, line[k]) # None /\ Occupant(b, line[k]) = playerId
                THEN [threw |-> FALSE, state |-> Won, winningSet |-> line,
                      winningPlayerId |-> playerId]
                ELSE ScanLines(b, pp, i, j + 1)

\* the outer loop of checkForGameEnd, from placed piece i on
RECURSIVE ScanPieces(_, _, _)
ScanPieces(b, pp, i) ==
    IF i > Len(pp) THEN Continue
    ELSE LET r == ScanLines(b, pp, i, 1) IN
         IF r.threw \/ r.state = Won THEN r ELSE ScanPieces(b, pp, i + 1)

\* gameState.board[0].every(cell => cell.playerId !== null)
TopRowFull(b) == \A x \in DOMAIN b[0] : b[0][x].playerId # None

\* a variant of checkForGameEnd whose test of a line asks only that its four
\* cells are occupied, not that one player holds them: the winner it reports
\* is the occupant of the first coordinate of the line
CheckForGameEndAnyOccupant(b, pp) ==
    LET lines(i) == b[pp[i][1]][pp[i][2]].validCoordSets
        full == {ij \in UNION {{<<i, j>> : j \in 1 .. Len(lines(i))} : i \in 1 .. Len(pp)} :
                    \A k \in 1 .. LineLen : Occupant(b, lines(ij[1])[ij[2]][k]) # None}
    IN
    IF full # {}
      THEN LET ij == CHOOSE f \in full :
                        \A g \in full : f[1] < g[1] \/ (f[1] = g[1] /\ f[2] <= g[2])
               line == lines(ij[1])[ij[2]]
           IN [threw |-> FALSE, state |-> Won, winningSet |-> line,
               winningPlayerId |-> Occupant(b, line[1])]
    ELSE IF TopRowFull(b) THEN [Continue EXCEPT !.state = Tied]
    ELSE Continue

\* Game.checkForGameEnd({board, placedPieces})
CheckForGameEnd(b, pp) ==
    LET r == ScanPieces(b, pp, 1) IN
    IF r.threw \/ r.state = Won THEN r
    ELSE IF TopRowFull(b) THEN [Continue EXCEPT !.state = Tied]
    ELSE Continue

\* ------------------------------------------------------------ dropPiece
\* a NULL row: _findEmptyCellInColumn returns null for a full column
NullRow == -1

\* a variant of _findEmptyCellInColumn that stops at the first empty cell from
\* the top instead of the last one
FindEmptyCellInColumnTop(b, h, col) ==
    IF b[0][col].playerId # None THEN NullRow ELSE 0

\* a variant of _findEmptyCellInColumn that gives the top row for a full column
FindEmptyCellInColumnNeverNull(b, h, col) ==
    LET occupied == {r \in Rows(h) : b[r][col].playerId # None} IN
    IF occupied = {} THEN h - 1
    ELSE IF 0 \in occupied THEN 0
    ELSE (CHOOSE r \in occupied : \A q \in occupied : r <= q) - 1

\* a variant of _findEmptyCellInColumn that is off by one row: it gives the
\* row above the lowest empty row when the column has two empty rows or more
FindEmptyCellInColumnOneAbove(b, h, col) ==
    IF b[0][col].playerId # None THEN NullRow
    ELSE LET occupied == {r \in Rows(h) : b[r][col].playerId # None}
             row == IF occupied = {} THEN h - 1
                    ELSE (CHOOSE r \in occupied : \A q \in occupied : r <= q) - 1
         IN IF row >= 1 THEN row - 1 ELSE row

\* _findEmptyCellInColumn(): null when the top cell of the column is taken,
\* else the row above the first occupied row scanning from the top, else
\* the bottom row.
FindEmptyCellInColumn(b, h, col) ==
    IF b[0][col].playerId # None THEN NullRow
    ELSE LET occupied == {r \in Rows(h) : b[r][col].playerId # None} IN
         IF occupied = {} THEN h - 1
         ELSE (CHOOSE r \in occupied : \A q \in occupied : r <= q) - 1

\* a variant of line 1247 that puts a new cell object at the location
AddToBoardNewCell(b, row, col, playerId) ==
    [b EXCEPT ![row][col] = [playerId |-> playerId, validCoordSets |-> <<>>]]

\* line 1247: initGame.board[row][col].playerId = playerId
AddToBoard(b, row, col, playerId) == [b EXCEPT ![row][col].playerId = playerId]

\* a variant of lines 1248-1252 that always begins a new array
AddToPlacedPiecesAnew(pp, row, col) == <<<<row, col>>>>

\* lines 1248-1252: placedPieces becomes [[row, col]] when it is null, else
\* [row, col] is pushed
AddToPlacedPieces(pp, row, col) ==
    IF pp = <<>> THEN <<<<row, col>>>> ELSE Append(pp, <<row, col>>)

\* a variant of _validateGameState without the check of the current player
ValidateGameStateAnyPlayer(b, gs, cur, playerId) ==
    IF b = <<>> THEN "InvalidGameState"
    ELSE IF gs # Started THEN "InvalidGameState"
    ELSE ""

\* a variant of _validateGameState without the check of gameState
ValidateGameStateAnyState(b, gs, cur, playerId) ==
    IF b = <<>> THEN "InvalidGameState"
    ELSE IF cur # playerId THEN "NotCurrentPlayer"
    ELSE ""

\* a variant of _validateGameState without the check of the board
ValidateGameStateAnyBoard(b, gs, cur, playerId) ==
    IF gs # Started THEN "InvalidGameState"
    ELSE IF cur # playerId THEN "NotCurrentPlayer"
    ELSE ""

\* _validateGameState() on the row read by dropPiece's first SELECT; "" when
\* every check passes.
ValidateGameState(b, gs, cur, playerId) ==
    IF b = <<>> THEN "InvalidGameState"
    ELSE IF gs # Started THEN "InvalidGameState"
    ELSE IF cur # playerId THEN "NotCurrentPlayer"
    ELSE ""

\* a variant of lines 1164-1175 without the check of the column against the
\* width: board[0][col] is then undefined and reading its playerId throws
DropErrorNoBounds(b, gs, cur, h, w, playerId, col) ==
    LET v == ValidateGameState(b, gs, cur, playerId) IN
    IF v # "" THEN v
    ELSE IF col < 0 \/ col > w - 1 THEN "TypeError"
    ELSE IF FindEmptyCellInColumn(b, h, col) = NullRow THEN "InvalidPiecePlacement"
    ELSE ""

\* a variant of lines 1069-1108 that goes on with the player of play order 0
\* when no player has the next play order
NextPlayerRecovers(rows, cur) ==
    LET currObj == [playerId |-> cur,
                    playOrder |-> IF \E i \in 1 .. Len(rows) : rows[i].playerId = cur
                                    THEN rows[CHOOSE i \in 1 .. Len(rows) :
                                                 rows[i].playerId = cur].playOrder
                                    ELSE NoOrder]
        hits(k) == {i \in 1 .. Len(rows) : rows[i].playOrder = k}
        nxt == IF currObj.playOrder # NoOrder /\ hits(currObj.playOrder + 1) # {}
                 THEN hits(currObj.playOrder + 1) ELSE hits(0)
    IN
    IF nxt = {} THEN [err |-> "Error", playerId |-> None]
    ELSE [err |-> "", playerId |-> rows[CHOOSE i \in nxt : TRUE].playerId]

\* dropPiece lines 1164-1175: the error thrown before anything is written,
\* "" when the drop is legal.
DropError(b, gs, cur, h, w, playerId, col) ==
    LET v == ValidateGameState(b, gs, cur, playerId) IN
    IF v # "" THEN v
    ELSE IF col < 0 \/ col > w - 1 THEN "InvalidPiecePlacement"
    ELSE IF FindEmptyCellInColumn(b, h, col) = NullRow THEN "InvalidPiecePlacement"
    ELSE ""

\* ------------------------------------------------------------ startTurn
\* [a[i], a[j]] = [a[j], a[i]] on a 0-based array held as a 1-based sequence
Swap(a, i, j) == [a EXCEPT ![i + 1] = a[j + 1], ![j + 1] = a[i + 1]]

\* the outcomes of the loop "for (i = n-1; i > 0; i--) { j = floor(random()*i);
\* swap(i, j) }" from index i down: j ranges over 0..i-1.
RECURSIVE ShuffleFrom(_, _)
ShuffleFrom(a, i) ==
    IF i <= 0 THEN {a}
    ELSE UNION {ShuffleFrom(Swap(a, i, j), i - 1) : j \in 0 .. (i - 1)}

Shuffle(a) == ShuffleFrom(a, Len(a) - 1)

\* index of player p in the 0-based array ids, NoOrder when absent: the value
\* "CASE WHEN player_id = ids[i] THEN i ... END" gives a row (NULL without a
\* matching WHEN)
CaseOrder(ids, p) ==
    IF \E i \in 1 .. Len(ids) : ids[i] = p
      THEN (CHOOSE i \in 1 .. Len(ids) : ids[i] = p /\ \A k \in 1 .. (i - 1) : ids[k] # p) - 1
      ELSE NoOrder

\* rows.find(o => ...): the first of the rows numbered in hits, undefined
\* (a row of no player) when there is none
FirstRow(rows, hits) ==
    IF hits = {} THEN [playerId |-> None, playOrder |-> NoOrder]
    ELSE rows[CHOOSE i \in hits : \A k \in hits : i <= k]

\* gamePlayersWithAiData.find(o => o.playerId === p)
FindPlayer(rows, p) ==
    FirstRow(rows, {i \in 1 .. Len(rows) : rows[i].playerId = p})

\* gamePlayersWithAiData.find(o => o.playOrder === k)
FindPlayOrder(rows, k) ==
    FirstRow(rows, {i \in 1 .. Len(rows) : rows[i].playOrder = k})

\* a variant of lines 1069-1108 that takes the player of play order 0 after
\* every player, not only after the last
NextPlayerFirst(rows, cur) ==
    LET currObj == FindPlayer(rows, cur)
        z == FindPlayOrder(rows, 0)
    IN
    IF currObj.playerId = None \/ z.playerId = None
      THEN [err |-> "Error", playerId |-> None]
      ELSE [err |-> "", playerId |-> z.playerId]

\* startTurn lines 1069-1108 on the rows of game_players and the current
\* player read earlier: the next player, or the Error thrown.
NextPlayer(rows, cur) ==
    LET currObj == FindPlayer(rows, cur) IN
    IF currObj.playerId = None THEN [err |-> "Error", playerId |-> None]
    ELSE IF currObj.playOrder = Len(rows) - 1
      THEN LET z == FindPlayOrder(rows, 0) IN
           IF z.playerId = None THEN [err |-> "Error", playerId |-> None]
           ELSE [err |-> "", playerId |-> z.playerId]
    ELSE IF currObj.playOrder = NoOrder THEN [err |-> "Error", playerId |-> None]
    ELSE LET n == FindPlayOrder(rows, currObj.playOrder + 1) IN
         IF n.playerId = None THEN [err |-> "Error", playerId |-> None]
         ELSE [err |-> "", playerId |-> n.playerId]

\* ---------------------------------------------------------------- state
VARIABLES
    height, width,     \* games.height, games.width
    board,             \* games.board; <<>> is NULL
    gameState,         \* games.game_state
    placedPieces,      \* games.placed_pieces; <<>> is NULL
    winningSet,        \* games.winning_set; <<>> is NULL
    currPlayerId,      \* games.curr_player_id; None is NULL
    gamePlayers,       \* the rows of game_players of the game, in insertion
                       \* order, which is taken to be the order a SELECT
                       \* without ORDER BY returns them in
    gameTurns,         \* the rows of game_turns of the game, in insertion order
    other,             \* a second game of the same size: its row of games and
                       \* its rows of game_players and game_turns
    tasks,             \* the handler invocations in flight, and the last result
    queue,             \* the handlers whose statement waits in the client's
                       \* query queue, first issued first
    calls,             \* how many addPlayers, removePlayer and start calls were made
    dropLog,           \* history: where each dropPiece that returned since the
                       \* last start put its piece
    rosterModified     \* history: addPlayers or removePlayer changed game_players
                       \* since the last start

vars == <<height, width, board, gameState, placedPieces, winningSet,
          currPlayerId, gamePlayers, gameTurns, other, tasks, queue, calls,
          dropLog, rosterModified>>

history == <<calls, dropLog, rosterModified>>

gameRow == <<height, width, board, gameState, placedPieces, winningSet, currPlayerId>>

\* Callers invoke the public handlers; a detached task is a startTurn that
\* start called without awaiting it.
CallerIds == {1, 2}
DetachedIds == 11 .. (10 + MaxDetached)
TaskIds == CallerIds \cup DetachedIds

\* the rows of the game: its row of games, and its rows of game_players and
\* game_turns
TheGame ==
    [board |-> board, gameState |-> gameState, placedPieces |-> placedPieces,
     winningSet |-> winningSet, currPlayerId |-> currPlayerId,
     gamePlayers |-> gamePlayers, gameTurns |-> gameTurns]

\* the game row and the number of turn records of game g
SnapshotOf(g) ==
    [board |-> g.board, placedPieces |-> g.placedPieces, gameState |-> g.gameState,
     winningSet |-> g.winningSet, currPlayerId |-> g.currPlayerId,
     turns |-> Len(g.gameTurns)]

\* the game row and the number of turn records, as a dropPiece call finds them
Snapshot == SnapshotOf(TheGame)

NoSnapshot ==
    [board |-> <<>>, placedPieces |-> <<>>, gameState |-> NotStarted,
     winningSet |-> <<>>, currPlayerId |-> None, turns |-> 0]

\* what a handler returns that has no return statement, or has not returned
Undefined == [type |-> "undefined", value |-> 0]

\* op, pc, the arguments (game: 1 is the game, 2 the second game, 0 an id that
\* no game has; playerId, col, players) and the locals of a handler; count is
\* the value that addPlayers or removePlayer returns;
\* before and quiet are history of a dropPiece call: the state its first
\* SELECT found, and whether no startTurn left behind by start was still
\* running then; seen is, of a dropPiece that returned, the number of turn
\* records it found
IdleTask ==
    [op |-> "none", pc |-> "idle", result |-> "", game |-> 1,
     playerId |-> None, col |-> 0, players |-> <<>>,
     gb |-> <<>>, gpp |-> <<>>, loc |-> <<>>, end |-> Continue,
     cur |-> None, ids |-> <<>>, next |-> None, count |-> Undefined,
     before |-> NoSnapshot, seen |-> 0, quiet |-> FALSE]

\* of a handler that has returned or thrown, what it was, the players an
\* addPlayers was given, the column an InvalidPiecePlacement refused, and how
\* it ended
Finished(t, res) ==
    [IdleTask EXCEPT !.op = t.op, !.pc = "done", !.result = res, !.count = t.count,
                     !.players = t.players, !.game = t.game,
                     !.col = IF res = "InvalidPiecePlacement" THEN t.col ELSE 0,
                     !.seen = IF res = "ok" THEN t.before.turns ELSE 0]

Free(id) == tasks[id].pc \in {"idle", "done"}

\* a detached startTurn has no caller: when it ends its slot is free again
End(id, t, res) == IF id \in DetachedIds THEN IdleTask ELSE Finished(t, res)

\* the history of drops after the handler t of slot id has returned
Logged(id, t) ==
    IF id \in CallerIds /\ t.op = "dropPiece" /\ t.game = 1
      THEN Append(dropLog, t.loc) ELSE dropLog

\* "WHERE id = $1", "WHERE game_id = $1": the rows of the game that handler t
\* was called for
GameOf(t) == IF t.game = 2 THEN other ELSE TheGame

\* a variant of WriteGame for a statement without its WHERE clause: the rows
\* of every game become g
WriteGameNoWhere(t, g) ==
    /\ other' = g
    /\ board' = g.board
    /\ gameState' = g.gameState
    /\ placedPieces' = g.placedPieces
    /\ winningSet' = g.winningSet
    /\ currPlayerId' = g.currPlayerId
    /\ gamePlayers' = g.gamePlayers
    /\ gameTurns' = g.gameTurns

\* an UPDATE or INSERT of handler t with "WHERE id = $1" or the game_id $1:
\* the rows of the game t was called for become g, the rows of the other game
\* stay
WriteGame(t, g) ==
    IF t.game = 2
      THEN /\ other' = g
           /\ UNCHANGED <<board, gameState, placedPieces, winningSet,
                          currPlayerId, gamePlayers, gameTurns>>
      ELSE /\ other' = other
           /\ board' = g.board
           /\ gameState' = g.gameState
           /\ placedPieces' = g.placedPieces
           /\ winningSet' = g.winningSet
           /\ currPlayerId' = g.currPlayerId
           /\ gamePlayers' = g.gamePlayers
           /\ gameTurns' = g.gameTurns

\* the second game when the calls begin: addPlayers([p1, p2]), start and its
\* startTurn have run on it
OtherGames(h, w) ==
    {[board |-> CreateInitializedBoard(h, w), gameState |-> GameStateDefault,
      placedPieces |-> <<>>, winningSet |-> <<>>, currPlayerId |-> ids[1],
      gamePlayers |-> [i \in 1 .. 2 |->
          [playerId |-> <<"p1", "p2">>[i],
           playOrder |-> CaseOrder(ids, <<"p1", "p2">>[i])]],
      gameTurns |-> <<>>] : ids \in Shuffle(<<"p1", "p2">>)}

\* db is one pg Client (db.ts): db.query puts the statement at the end of the
\* client's queue, and the statements run one at a time in that order.  The
\* statement of handler id is the one that runs now:
Runs(id) == queue # <<>> /\ Head(queue) = id

\* the queue once that statement has run and handler id, now t, has gone on to
\* its next db.query (or has returned or thrown)
Requeue(id, t) ==
    IF t.pc \in {"idle", "done"} THEN Tail(queue) ELSE Append(Tail(queue), id)

Init ==
    /\ \E d \in BoardSizes : height = d[1] /\ width = d[2]
    /\ board = <<>>
    /\ gameState = GameStateDefault
    /\ placedPieces = <<>>
    /\ winningSet = <<>>
    /\ currPlayerId = None
    /\ gamePlayers = <<>>
    /\ gameTurns = <<>>
    /\ other \in OtherGames(height, width)
    /\ tasks = [id \in TaskIds |-> IdleTask]
    /\ queue = <<>>
    /\ calls = 0
    /\ dropLog = <<>>
    /\ rosterModified = FALSE

RosterIds == {gamePlayers[i].playerId : i \in 1 .. Len(gamePlayers)}

\* caller id invokes a handler: the handler runs up to its first db.query
Invoke(id, t) ==
    /\ Free(id)
    /\ tasks' = [tasks EXCEPT ![id] = t]
    /\ queue' = Append(queue, id)
    /\ UNCHANGED <<gameRow, gamePlayers, gameTurns, other, dropLog, rosterModified>>

\* ---------------------------------------------------- addPlayers (722-759)
\* the player lists given to addPlayers: any one player, one list of two, and
\* one list that names a player twice
AddInputs == {<<p>> : p \in Players} \cup {<<"p1", "p2">>, <<"p1", "p1">>}

CallAddPlayers(id) ==
    /\ calls < MaxCalls
    /\ calls' = calls + 1
    /\ \E ps \in AddInputs :
          Invoke(id, [IdleTask EXCEPT !.op = "addPlayers", !.pc = "A1", !.players = ps])

\* a variant of the key that compares the new rows with each other only, not
\* with the rows of the table
InsertConflictAmongNew(rows, ps) ==
    \E i \in 1 .. Len(ps) : \E k \in 1 .. Len(ps) : i # k /\ ps[i] = ps[k]

\* the INSERT violates the primary key (player_id, game_id)
InsertConflict(rows, ps) ==
    \/ \E i \in 1 .. Len(ps) : \E k \in 1 .. Len(rows) : rows[k].playerId = ps[i]
    \/ \E i \in 1 .. Len(ps) : \E k \in 1 .. Len(ps) : i # k /\ ps[i] = ps[k]

\* INSERT INTO game_players (game_id, player_id) VALUES ...
AddPlayersInsert(id) ==
    /\ Runs(id)
    /\ tasks[id].pc = "A1"
    /\ LET t == tasks[id]
           ps == t.players
       IN IF InsertConflict(gamePlayers, ps)
            THEN /\ tasks' = [tasks EXCEPT ![id] = Finished(t, "PlayerAlreadyExists")]
                 /\ UNCHANGED <<gamePlayers, rosterModified>>
            ELSE /\ gamePlayers' = gamePlayers \o
                       [i \in 1 .. Len(ps) |-> [playerId |-> ps[i], playOrder |-> NoOrder]]
                 /\ rosterModified' = TRUE
                 /\ tasks' = [tasks EXCEPT ![id] = [t EXCEPT !.pc = "A2"]]
    /\ queue' = Requeue(id, tasks'[id])
    /\ UNCHANGED <<gameRow, gameTurns, other, calls, dropLog>>

\* rows[0].count of "SELECT COUNT(*)" over n rows: COUNT is a bigint, which
\* the pg client hands over as its decimal text
CountColumn(n) == [type |-> "string", value |-> n]

\* SELECT COUNT(*) FROM game_players; return the count
AddPlayersCount(id) ==
    /\ Runs(id)
    /\ tasks[id].pc = "A2"
    /\ tasks' = [tasks EXCEPT ![id] =
                    Finished([tasks[id] EXCEPT !.count = CountColumn(Len(gamePlayers))], "ok")]
    /\ queue' = Requeue(id, tasks'[id])
    /\ UNCHANGED <<gameRow, gamePlayers, gameTurns, other, history>>

\* --------------------------------------------------- removePlayer (765-774)
CallRemovePlayer(id) ==
    /\ calls < MaxCalls
    /\ calls' = calls + 1
    /\ \E p \in Players :
          Invoke(id, [IdleTask EXCEPT !.op = "removePlayer", !.pc = "R1", !.playerId = p])

\* a variant of the DELETE with "WHERE game_id = $2" only
DeletedRowsOfGame(rows, p) == rows

\* the rows that "DELETE ... WHERE player_id = $1 AND game_id = $2" deletes
\* from the rows of the game, and returns
DeletedRows(rows, p) == SelectSeq(rows, LAMBDA r : r.playerId = p)

\* DELETE FROM game_players ... RETURNING player_id; no row: NotFoundError.
\* The handler has no return statement: a call that succeeds returns undefined.
RemovePlayer(id) ==
    /\ Runs(id)
    /\ tasks[id].pc = "R1"
    /\ LET t == tasks[id]
           p == t.playerId
           deleted == DeletedRows(gamePlayers, p)
       IN IF deleted # <<>>
            THEN /\ gamePlayers' = SelectSeq(gamePlayers,
                                      LAMBDA r : \A i \in 1 .. Len(deleted) : deleted[i] # r)
                 /\ rosterModified' = TRUE
                 /\ tasks' = [tasks EXCEPT ![id] = Finished(t, "ok")]
            ELSE /\ tasks' = [tasks EXCEPT ![id] = Finished(t, "NotFoundError")]
                 /\ UNCHANGED <<gamePlayers, rosterModified>>
    /\ queue' = Requeue(id, tasks'[id])
    /\ UNCHANGED <<gameRow, gameTurns, other, calls, dropLog>>

\* ----------------------------------------------------------- start (801-839)
\* start declares the one parameter gameId: a second argument, as in
\* Game.start(id, false) of game.test.ts, is not looked at, and the call runs
\* as Game.start(id) does
CallStart(id) ==
    /\ calls < MaxCalls
    /\ calls' = calls + 1
    /\ Invoke(id, [IdleTask EXCEPT !.op = "start", !.pc = "S1"])

\* SELECT height, width FROM games
StartSelectGame(id) ==
    /\ Runs(id)
    /\ tasks[id].pc = "S1"
    /\ tasks' = [tasks EXCEPT ![id].pc = "S2"]
    /\ queue' = Requeue(id, tasks'[id])
    /\ UNCHANGED <<gameRow, gamePlayers, gameTurns, other, history>>

\* a variant of line 819 that asks for one player only
TooFewForStartOne(count) == count < 1

\* line 819: "rows[0].count < 2"
TooFewForStart(count) == count < 2

\* SELECT COUNT(*) FROM game_players; fewer than 2 throws TooFewPlayers
StartCountPlayers(id) ==
    /\ Runs(id)
    /\ tasks[id].pc = "S2"
    /\ tasks' = [tasks EXCEPT ![id] =
                    IF TooFewForStart(Len(gamePlayers)) THEN Finished(tasks[id], "TooFewPlayers")
                    ELSE [tasks[id] EXCEPT !.pc = "S3"]]
    /\ queue' = Requeue(id, tasks'[id])
    /\ UNCHANGED <<gameRow, gamePlayers, gameTurns, other, history>>

\* a variant of start's UPDATE that leaves placed_pieces and winning_set alone
StartResetRowKeepsPieces(h, w) ==
    [board |-> CreateInitializedBoard(h, w), gameState |-> GameStateDefault,
     placedPieces |-> placedPieces, winningSet |-> winningSet,
     currPlayerId |-> None]

\* a variant of start's UPDATE without "winning_set = DEFAULT"
StartResetRowKeepsWinningSet(h, w) ==
    [board |-> CreateInitializedBoard(h, w), gameState |-> GameStateDefault,
     placedPieces |-> <<>>, winningSet |-> winningSet, currPlayerId |-> None]

\* the values start's UPDATE writes: board = $2, and the column defaults for
\* game_state, placed_pieces, winning_set and curr_player_id
StartResetRow(h, w) ==
    [board |-> CreateInitializedBoard(h, w), gameState |-> GameStateDefault,
     placedPieces |-> <<>>, winningSet |-> <<>>, currPlayerId |-> None]

\* UPDATE games SET board = $2, game_state = DEFAULT, placed_pieces = DEFAULT,
\* winning_set = DEFAULT, curr_player_id = DEFAULT; then Game.startTurn(gameId)
\* is called and not awaited: its first SELECT is issued, and start returns.
\* As history the returned call keeps the game_state it overwrote.
StartReset(id) ==
    /\ Runs(id)
    /\ tasks[id].pc = "S3"
    /\ \E d \in DetachedIds :
         /\ Free(d)
         /\ \A e \in DetachedIds : Free(e) => d <= e
         /\ tasks' = [tasks EXCEPT
                        ![id] = [Finished(tasks[id], "ok") EXCEPT
                                   !.before.gameState = gameState],
                        ![d] = [IdleTask EXCEPT !.op = "startTurn", !.pc = "T1"]]
         /\ queue' = Append(Tail(queue), d)
    /\ LET r == StartResetRow(height, width) IN
         /\ board' = r.board
         /\ gameState' = r.gameState
         /\ placedPieces' = r.placedPieces
         /\ winningSet' = r.winningSet
         /\ currPlayerId' = r.currPlayerId
    /\ dropLog' = <<>>
    /\ rosterModified' = FALSE
    /\ UNCHANGED <<height, width, gamePlayers, gameTurns, other, calls>>

\* ------------------------------------------------------ dropPiece (1132-1307)
ColInputs == -1 .. width

CallDropPiece(id) ==
    /\ Len(gameTurns) < MaxTurns
    /\ \E p \in Players, c \in ColInputs :
          Invoke(id, [IdleTask EXCEPT !.op = "dropPiece", !.pc = "D1",
                                      !.playerId = p, !.col = c])
    /\ UNCHANGED calls

\* the second game is called with dropPiece
CallDropPieceOther(id) ==
    /\ Len(other.gameTurns) < MaxTurns
    /\ \E p \in Players, c \in ColInputs :
          Invoke(id, [IdleTask EXCEPT !.op = "dropPiece", !.pc = "D1", !.game = 2,
                                      !.playerId = p, !.col = c])
    /\ UNCHANGED calls

\* dropPiece is called with an id that no game has; the player and the column
\* are not looked at before the row of the game is
CallDropPieceMissing(id) ==
    /\ \E p \in Players :
          Invoke(id, [IdleTask EXCEPT !.op = "dropPiece", !.pc = "D1", !.game = 0,
                                      !.playerId = p])
    /\ UNCHANGED calls

\* a statement of handler id that writes nothing
ReadOnly == UNCHANGED <<gameRow, gamePlayers, gameTurns, other>>

\* SELECT board, game_state, curr_player_id, width, height, placed_pieces;
\* _validateGameState, the column checks and _findEmptyCellInColumn; then the
\* in-memory part of _addToBoard (lines 1248-1253) on the row just read.
\* With no row for the id, rows[0] is undefined and "gameResult.board" on line
\* 1160 throws a TypeError before _validateGameState is called.
DropSelectGame(id) ==
    /\ Runs(id)
    /\ tasks[id].pc = "D1"
    /\ LET p == tasks[id].playerId
           c == tasks[id].col
           g == GameOf(tasks[id])
           t == [tasks[id] EXCEPT !.before = SnapshotOf(g),
                                  !.quiet = \A d \in DetachedIds : Free(d)]
           e == DropError(g.board, g.gameState, g.currPlayerId, height, width, p, c)
       IN
       IF tasks[id].game = 0
         THEN tasks' = [tasks EXCEPT ![id] = Finished(tasks[id], "TypeError")]
       ELSE IF e # "" THEN tasks' = [tasks EXCEPT ![id] = Finished(t, e)]
       ELSE LET row == FindEmptyCellInColumn(g.board, height, c) IN
            tasks' = [tasks EXCEPT ![id] =
                [t EXCEPT !.pc = "D2",
                          !.loc = <<row, c>>,
                          !.gb = AddToBoard(g.board, row, c, p),
                          !.gpp = AddToPlacedPieces(g.placedPieces, row, c)]]
    /\ queue' = Requeue(id, tasks'[id])
    /\ ReadOnly
    /\ UNCHANGED history

\* _addToBoard: UPDATE games SET board = $2, placed_pieces = $3 WHERE id = $1
DropAddToBoard(id) ==
    /\ Runs(id)
    /\ tasks[id].pc = "D2"
    /\ WriteGame(tasks[id], [GameOf(tasks[id]) EXCEPT !.board = tasks[id].gb,
                                                      !.placedPieces = tasks[id].gpp])
    /\ tasks' = [tasks EXCEPT ![id].pc = "D3", ![id].gb = <<>>, ![id].gpp = <<>>]
    /\ queue' = Requeue(id, tasks'[id])
    /\ UNCHANGED <<height, width, history>>

\* _addTurnRecord: INSERT INTO game_turns (game_id, player_id, location)
DropAddTurnRecord(id) ==
    /\ Runs(id)
    /\ tasks[id].pc = "D3"
    /\ LET g == GameOf(tasks[id]) IN
       WriteGame(tasks[id],
                 [g EXCEPT !.gameTurns =
                     Append(g.gameTurns, [playerId |-> tasks[id].playerId,
                                          location |-> tasks[id].loc])])
    /\ tasks' = [tasks EXCEPT ![id].pc = "D4"]
    /\ queue' = Requeue(id, tasks'[id])
    /\ UNCHANGED <<height, width, history>>

\* what dropPiece does with the result of checkForGameEnd (lines 1191-1201 and
\* the head of _updateGameState): the pc it goes to, or the error it throws
AfterCheck(t, end) ==
    IF end.threw THEN Finished(t, "TypeError")
    ELSE IF end.state = Won
      THEN IF end.winningPlayerId # t.playerId THEN Finished(t, "Error")
           ELSE [t EXCEPT !.pc = "D5", !.end = end]
    ELSE IF end.state = Tied THEN [t EXCEPT !.pc = "D5", !.end = end]
    ELSE [t EXCEPT !.pc = "T1"]

\* SELECT board, placed_pieces; checkForGameEnd.  A NULL placed_pieces makes
\* gameState.placedPieces.length throw a TypeError.
DropCheckForGameEnd(id) ==
    /\ Runs(id)
    /\ tasks[id].pc = "D4"
    /\ LET g == GameOf(tasks[id]) IN
       tasks' = [tasks EXCEPT ![id] =
                    AfterCheck(tasks[id],
                               IF g.placedPieces = <<>> THEN TypeErrorResult
                               ELSE CheckForGameEnd(g.board, g.placedPieces))]
    /\ queue' = Requeue(id, tasks'[id])
    /\ ReadOnly
    /\ UNCHANGED history

\* _updateGameState: "UPDATE games SET winning_set = $2 gameState = 2" has no
\* comma between the assignments, and "SET gameState = 3" names a column the
\* table does not have (it is game_state): PostgreSQL rejects both statements,
\* db.query rejects, and dropPiece throws the database error.  Nothing is
\* written.
UpdateGameStateResult(end) ==
    [err |-> "DatabaseError", gameState |-> gameState, winningSet |-> winningSet]

DropUpdateGameState(id) ==
    /\ Runs(id)
    /\ tasks[id].pc = "D5"
    /\ LET r == UpdateGameStateResult(tasks[id].end)
           g == GameOf(tasks[id])
       IN
       /\ WriteGame(tasks[id],
                    IF r.err = "" THEN [g EXCEPT !.gameState = r.gameState,
                                                 !.winningSet = r.winningSet]
                    ELSE g)
       /\ tasks' = [tasks EXCEPT ![id] =
                       Finished(tasks[id], IF r.err = "" THEN "ok" ELSE r.err)]
       /\ dropLog' = IF r.err = "" THEN Logged(id, tasks[id]) ELSE dropLog
    /\ queue' = Requeue(id, tasks'[id])
    /\ UNCHANGED <<height, width, calls, rosterModified>>

\* ------------------------------------------------------ startTurn (963-1123)
\* SELECT id, width, curr_player_id FROM games
TurnSelectGame(id) ==
    /\ Runs(id)
    /\ tasks[id].pc = "T1"
    /\ LET cur == GameOf(tasks[id]).currPlayerId IN
       tasks' = [tasks EXCEPT ![id].cur = cur,
                              ![id].pc = IF cur = None THEN "T2" ELSE "T5"]
    /\ queue' = Requeue(id, tasks'[id])
    /\ ReadOnly
    /\ UNCHANGED history

\* SELECT player_id FROM game_players; the shuffle of lines 1017-1020
TurnSelectPlayerIds(id) ==
    /\ Runs(id)
    /\ tasks[id].pc = "T2"
    /\ LET rows == GameOf(tasks[id]).gamePlayers IN
       \E ids \in Shuffle([i \in 1 .. Len(rows) |-> rows[i].playerId]) :
         tasks' = [tasks EXCEPT ![id].ids = ids, ![id].pc = "T3"]
    /\ queue' = Requeue(id, tasks'[id])
    /\ ReadOnly
    /\ UNCHANGED history

\* UPDATE game_players SET play_order = CASE WHEN ... END WHERE game_id = $1;
\* with no player id the statement reads "CASE END", which PostgreSQL rejects
TurnSetPlayOrder(id) ==
    /\ Runs(id)
    /\ tasks[id].pc = "T3"
    /\ LET g == GameOf(tasks[id])
           rows == g.gamePlayers
       IN
       IF tasks[id].ids = <<>>
         THEN /\ tasks' = [tasks EXCEPT ![id] = End(id, tasks[id], "DatabaseError")]
              /\ WriteGame(tasks[id], g)
         ELSE /\ WriteGame(tasks[id],
                   [g EXCEPT !.gamePlayers = [i \in 1 .. Len(rows) |->
                       [rows[i] EXCEPT
                          !.playOrder = CaseOrder(tasks[id].ids, rows[i].playerId)]]])
              /\ tasks' = [tasks EXCEPT ![id].pc = "T4"]
    /\ queue' = Requeue(id, tasks'[id])
    /\ UNCHANGED <<height, width, history>>

\* UPDATE games SET curr_player_id = playerIds[0] WHERE id = $1; return
TurnSetFirstPlayer(id) ==
    /\ Runs(id)
    /\ tasks[id].pc = "T4"
    /\ WriteGame(tasks[id],
                 [GameOf(tasks[id]) EXCEPT !.currPlayerId = tasks[id].ids[1]])
    /\ tasks' = [tasks EXCEPT ![id] = End(id, tasks[id], "ok")]
    /\ queue' = Requeue(id, tasks'[id])
    /\ dropLog' = Logged(id, tasks[id])
    /\ UNCHANGED <<height, width, calls, rosterModified>>

\* SELECT player_id, play_order, ai FROM game_players JOIN players; lines
\* 1069-1108 pick the next player or throw
TurnSelectPlayers(id) ==
    /\ Runs(id)
    /\ tasks[id].pc = "T5"
    /\ LET n == NextPlayer(GameOf(tasks[id]).gamePlayers, tasks[id].cur) IN
       tasks' = [tasks EXCEPT ![id] =
                    IF n.err # "" THEN End(id, tasks[id], n.err)
                    ELSE [tasks[id] EXCEPT !.next = n.playerId, !.pc = "T6"]]
    /\ queue' = Requeue(id, tasks'[id])
    /\ ReadOnly
    /\ UNCHANGED history

\* UPDATE games SET curr_player_id = nextPlayer.playerId WHERE id = $1
TurnSetNextPlayer(id) ==
    /\ Runs(id)
    /\ tasks[id].pc = "T6"
    /\ WriteGame(tasks[id],
                 [GameOf(tasks[id]) EXCEPT !.currPlayerId = tasks[id].next])
    /\ tasks' = [tasks EXCEPT ![id] = End(id, tasks[id], "ok")]
    /\ queue' = Requeue(id, tasks'[id])
    /\ dropLog' = Logged(id, tasks[id])
    /\ UNCHANGED <<height, width, calls, rosterModified>>

\* ------------------------------------------------------- specifications
\* PostgreSQL runs the statement of handler id
Step(id) ==
    \/ AddPlayersInsert(id)
    \/ AddPlayersCount(id)
    \/ RemovePlayer(id)
    \/ StartSelectGame(id)
    \/ StartCountPlayers(id)
    \/ StartReset(id)
    \/ DropSelectGame(id)
    \/ DropAddToBoard(id)
    \/ DropAddTurnRecord(id)
    \/ DropCheckForGameEnd(id)
    \/ DropUpdateGameState(id)
    \/ TurnSelectGame(id)
    \/ TurnSelectPlayerIds(id)
    \/ TurnSetPlayOrder(id)
    \/ TurnSetFirstPlayer(id)
    \/ TurnSelectPlayers(id)
    \/ TurnSetNextPlayer(id)

\* a caller invokes a handler
Call(id) ==
    \/ CallAddPlayers(id)
    \/ CallRemovePlayer(id)
    \/ CallStart(id)
    \/ CallDropPiece(id)

\* one caller that awaits each call before making the next; the startTurn
\* that start leaves running goes on in the background
Next ==
    \/ Call(1)
    \/ \E id \in TaskIds : Step(id)

Spec == Init /\ [][Next]_vars

\* as Spec, and a second caller that calls dropPiece once, while a dropPiece of
\* the first caller is running
NextDrops ==
    \/ Free(2) /\ Call(1)
    \/ ~Free(1) /\ tasks[1].op = "dropPiece" /\ tasks[2].pc = "idle" /\ CallDropPiece(2)
    \/ \E id \in TaskIds : Step(id)

SpecDrops == Init /\ [][NextDrops]_vars

\* as Spec, and a second caller that calls start, addPlayers or removePlayer
\* once, at any time between two calls of the first caller; the first caller
\* may call dropPiece while that call is running
NextRace ==
    \/ Free(2) /\ Call(1)
    \/ ~Free(2) /\ CallDropPiece(1)
    \/ /\ Free(1) /\ tasks[2].pc = "idle"
       /\ \/ CallStart(2)
          \/ CallAddPlayers(2)
          \/ CallRemovePlayer(2)
    \/ \E id \in TaskIds : Step(id)

SpecRace == Init /\ [][NextRace]_vars

\* as Spec, and a second caller that calls dropPiece on the second game once,
\* while a dropPiece of the first caller on the game is running that has
\* passed its validation
NextGames ==
    \/ Free(2) /\ Call(1)
    \/ /\ ~Free(1) /\ tasks[1].op = "dropPiece" /\ tasks[1].pc # "D1"
       /\ tasks[2].pc = "idle"
       /\ CallDropPieceOther(2)
    \/ \E id \in TaskIds : Step(id)

SpecGames == Init /\ [][NextGames]_vars

\* as Spec, and the caller may call dropPiece with an id that no game has
NextMissing ==
    \/ Call(1)
    \/ CallDropPieceMissing(1)
    \/ \E id \in TaskIds : Step(id)

SpecMissing == Init /\ [][NextMissing]_vars

\* two callers that call addPlayers and removePlayer, each awaiting its call
\* before its next, the calls of the one running while those of the other do
NextRoster ==
    \E id \in CallerIds :
       \/ CallAddPlayers(id)
       \/ CallRemovePlayer(id)
       \/ AddPlayersInsert(id)
       \/ AddPlayersCount(id)
       \/ RemovePlayer(id)

SpecRoster == Init /\ [][NextRoster]_vars

\* ------------------------------- createGameWithBoardState (_factories.ts)
\* every piece rests on the bottom row or on another piece
Stacked(h, w, occ) ==
    \A y \in Rows(h), x \in Cols(w) :
        occ[y][x] # None /\ y + 1 \in Rows(h) => occ[y + 1][x] # None

\* the boards a test hands to the factory: an initialized board of one of the
\* sizes, each cell empty or taken by one of two players, the pieces stacked
BoardStates ==
    UNION {{[y \in Rows(d[1]) |-> [x \in Cols(d[2]) |->
                [CreateInitializedBoard(d[1], d[2])[y][x] EXCEPT !.playerId = occ[y][x]]]]
            : occ \in {o \in [Rows(d[1]) -> [Cols(d[2]) -> {None, "p1", "p2"}]] :
                          Stacked(d[1], d[2], o)}}
           : d \in BoardSizes}

\* lines 33-40: the occupied coordinates, row by row
PlacedPiecesOf(b) ==
    LET h == Cardinality(DOMAIN b)
        w == Cardinality(DOMAIN b[0])
    IN SelectSeq([k \in 1 .. h * w |-> <<(k - 1) \div w, (k - 1) % w>>],
                 LAMBDA c : Occupant(b, c) # None)

\* the game row the factory inserts (lines 43-78) for a board on which the
\* game is over; the game has no players and no turns yet
InitFactory ==
    /\ \E b \in BoardStates, cur \in {"p1", "p2"} :
         LET pp == PlacedPiecesOf(b)
             end == CheckForGameEnd(b, pp)
         IN /\ ~end.threw
            /\ end.state \in {Won, Tied}
            /\ height = Cardinality(DOMAIN b)
            /\ width = Cardinality(DOMAIN b[0])
            /\ board = b
            /\ gameState = end.state
            /\ placedPieces = pp
            /\ winningSet = end.winningSet
            /\ currPlayerId = cur
    /\ gamePlayers = <<>>
    /\ gameTurns = <<>>
    /\ other \in OtherGames(height, width)
    /\ tasks = [id \in TaskIds |-> IdleTask]
    /\ queue = <<>>
    /\ calls = 0
    /\ dropLog = <<>>
    /\ rosterModified = FALSE

\* a finished game made by the factory, then used through the handlers by one
\* caller
SpecFactory == InitFactory /\ [][Next]_vars

\* ------------------------------------------- createInitializedBoard alone
\* the largest height and width given to createInitializedBoard
MaxSide == 8

\* a game of any height and width up to MaxSide, as Game.create made it
InitBoards ==
    /\ height \in 1 .. MaxSide
    /\ width \in 1 .. MaxSide
    /\ board = <<>>
    /\ gameState = GameStateDefault
    /\ placedPieces = <<>>
    /\ winningSet = <<>>
    /\ currPlayerId = None
    /\ gamePlayers = <<>>
    /\ gameTurns = <<>>
    /\ other \in OtherGames(1, 1)
    /\ tasks = [id \in TaskIds |-> IdleTask]
    /\ queue = <<>>
    /\ calls = 0
    /\ dropLog = <<>>
    /\ rosterModified = FALSE

\* Game.createInitializedBoard({height, width}) is applied to the dimensions
\* of the game, and its result is held as the board of the game
CreateBoard ==
    /\ board = <<>>
    /\ board' = CreateInitializedBoard(height, width)
    /\ UNCHANGED <<height, width, gameState, placedPieces, winningSet, currPlayerId,
                   gamePlayers, gameTurns, other, tasks, queue, history>>

NextBoards == CreateBoard

SpecBoards == InitBoards /\ [][NextBoards]_vars

\* ------------------------------------------------- checkForGameEnd alone
\* the most pieces dropped on a board that is given to checkForGameEnd
MaxPieces == 4

\* the { height, width } of the boards given to checkForGameEnd: a single row
\* of four cells, four rows of four, and four rows of seven
EndBoardSizes == {<<1, 4>>, <<4, 4>>, <<4, 7>>}

\* an initialized board with no piece on it
InitEnd ==
    /\ \E d \in EndBoardSizes : height = d[1] /\ width = d[2]
    /\ board = CreateInitializedBoard(height, width)
    /\ gameState = GameStateDefault
    /\ placedPieces = <<>>
    /\ winningSet = <<>>
    /\ currPlayerId = None
    /\ gamePlayers = <<>>
    /\ gameTurns = <<>>
    /\ other \in OtherGames(1, 1)
    /\ tasks = [id \in TaskIds |-> IdleTask]
    /\ queue = <<>>
    /\ calls = 0
    /\ dropLog = <<>>
    /\ rosterModified = FALSE

\* one more piece drops into a column that has room, as _findEmptyCellInColumn
\* and the in-memory part of _addToBoard (lines 1248-1253) place it
PlacePiece ==
    /\ Len(placedPieces) < MaxPieces
    /\ \E p \in {"p1", "p2"}, c \in Cols(width) :
         LET row == FindEmptyCellInColumn(board, height, c) IN
         /\ row # NullRow
         /\ board' = AddToBoard(board, row, c, p)
         /\ placedPieces' = AddToPlacedPieces(placedPieces, row, c)
    /\ tasks' = [tasks EXCEPT ![1] = IdleTask]
    /\ UNCHANGED <<height, width, gameState, winningSet, currPlayerId,
                   gamePlayers, gameTurns, other, queue, history>>

\* Game.checkForGameEnd({board, placedPieces}) is called, and what it
\* returned, or that it threw, is held as the end of the call
CheckEnd ==
    /\ tasks[1].pc = "idle"
    /\ tasks' = [tasks EXCEPT ![1] =
                    [IdleTask EXCEPT !.op = "checkForGameEnd", !.pc = "done",
                                     !.end = CheckForGameEnd(board, placedPieces)]]
    /\ UNCHANGED <<gameRow, gamePlayers, gameTurns, other, queue, history>>

NextEnd == PlacePiece \/ CheckEnd

SpecEnd == InitEnd /\ [][NextEnd]_vars

\* =================================================================== claims
\* what the claims speak of
GameFields == <<board, placedPieces, gameTurns, gameState, winningSet, currPlayerId>>

\* the game has a board and is in play
InPlay == board # <<>> /\ gameState = Started

\* this step returns from, or throws out of, a dropPiece call of caller id
DropEnds(id) ==
    /\ tasks[id].op = "dropPiece"
    /\ ~Free(id)
    /\ tasks'[id].pc = "done"

\* the state that the dropPiece call which ends in this step found
FoundBy(id) == IF tasks[id].pc = "D1" THEN Snapshot ELSE tasks[id].before

\* the sets of four cells in a straight line on the board
Cells == {<<y, x>> : y \in Rows(height), x \in Cols(width)}
Directions == {<<0, 1>>, <<1, 0>>, <<1, 1>>, <<1, -1>>}
FourFrom(c, d) == {<<c[1] + k * d[1], c[2] + k * d[2]>> : k \in 0 .. 3}
LinesOfFour == {l \in {FourFrom(c, d) : c \in Cells, d \in Directions} : l \subseteq Cells}

\* the lines of four that one player holds on board b
HeldLines(b) ==
    {l \in LinesOfFour : \E p \in Players : \A c \in l : Occupant(b, c) = p}

\* play_order of player p in game_players
PlayOrderOf(p) ==
    LET hits == {i \in 1 .. Len(gamePlayers) : gamePlayers[i].playerId = p} IN
    IF hits = {} THEN NoOrder ELSE gamePlayers[CHOOSE i \in hits : TRUE].playOrder

\* the empty rows of column c
EmptyRows(b, c) == {y \in Rows(height) : b[y][c].playerId = None}

\* ----------------------------------------------------------------------- C1
\* C1: of two dropPiece calls on one game that run concurrently, at most one
\* succeeds: no two calls that found the same number of turn records (that
\* played the same turn) both return successfully.  Stated for SpecDrops.
C1_OneDropPerTurn ==
    ~ /\ \A id \in CallerIds :
            /\ tasks[id].pc = "done"
            /\ tasks[id].op = "dropPiece"
            /\ tasks[id].result = "ok"
      /\ tasks[1].seen = tasks[2].seen

\* ----------------------------------------------------------------------- C2
\* the step condition of C2_FailedDropChangesNothing
C2_FailedDropChangesNothing_Step ==
    \A id \in CallerIds :
       DropEnds(id) /\ tasks'[id].result # "ok" => Snapshot' = FoundBy(id)

\* C2: a dropPiece call that fails, at whatever step, leaves the board,
\* placedPieces, the turn records, gameState, winningSet and currPlayerId as
\* the call found them.
C2_FailedDropChangesNothing == [][C2_FailedDropChangesNothing_Step]_vars

\* ----------------------------------------------------------------------- C3
\* the step condition of C3_NotCurrentPlayerChangesNothing
C3_NotCurrentPlayerChangesNothing_Step ==
    /\ InPlay =>
         \A p \in Players \ {currPlayerId}, c \in ColInputs :
            DropError(board, gameState, currPlayerId, height, width, p, c)
               = "NotCurrentPlayer"
    /\ \A id \in CallerIds :
         DropEnds(id) /\ tasks'[id].result = "NotCurrentPlayer"
            => GameFields' = GameFields /\ Snapshot' = FoundBy(id)

\* C3: in a started game every dropPiece by a player other than currPlayerId,
\* into whatever column, is answered NotCurrentPlayer, and a dropPiece that
\* ends in NotCurrentPlayer has changed nothing of the game (board,
\* placedPieces, turn records, gameState, winningSet, currPlayerId).
C3_NotCurrentPlayerChangesNothing == [][C3_NotCurrentPlayerChangesNothing_Step]_vars

\* a dropPiece was refused with NotCurrentPlayer in a game with a piece on the
\* board and a current player
C3_Witness ==
    /\ tasks[1].pc = "done"
    /\ tasks[1].op = "dropPiece"
    /\ tasks[1].result = "NotCurrentPlayer"
    /\ InPlay
    /\ currPlayerId # None
    /\ Len(placedPieces) >= 1

\* ----------------------------------------------------------------------- C4
\* the step condition of C4_FinishedGameRejectsDrops
C4_FinishedGameRejectsDrops_Step ==
    gameState \in {Won, Tied} =>
      /\ \A id \in CallerIds :
            tasks[id].pc = "D1" /\ tasks'[id].pc # "D1"
               => tasks'[id].pc = "done" /\ tasks'[id].result = "InvalidGameState"
      /\ \/ <<board, placedPieces, winningSet, gameState, currPlayerId>>'
               = <<board, placedPieces, winningSet, gameState, currPlayerId>>
         \/ \E id \in CallerIds :
               tasks[id].op = "start" /\ tasks[id].pc = "S3" /\ tasks'[id].pc = "done"

\* C4: while gameState is Won or Tied, a dropPiece call ends at its first
\* statement with InvalidGameState, and no step other than start's UPDATE changes the board,
\* placedPieces, winningSet, gameState or currPlayerId.  Stated for
\* SpecFactory: only createGameWithBoardState makes a game Won or Tied.
C4_FinishedGameRejectsDrops == [][C4_FinishedGameRejectsDrops_Step]_vars

\* a dropPiece was refused with InvalidGameState in a won game
C4_Witness ==
    /\ gameState = Won
    /\ winningSet # <<>>
    /\ tasks[1].pc = "done"
    /\ tasks[1].op = "dropPiece"
    /\ tasks[1].result = "InvalidGameState"

\* ----------------------------------------------------------------------- C5
\* C5: whenever no dropPiece is running in a started game, placedPieces holds
\* the coordinates of the dropPiece calls that succeeded since start, one
\* each, in the order of the calls; no coordinate twice; at most width x
\* height of them.
C5_PlacedPiecesAreTheSuccessfulDrops ==
    Free(1) /\ board # <<>> =>
       /\ placedPieces = dropLog
       /\ \A i, k \in 1 .. Len(placedPieces) : i # k => placedPieces[i] # placedPieces[k]
       /\ Len(placedPieces) <= width * height

\* ----------------------------------------------------------------------- C6
\* the step condition of C6_DropLandsOnLowestEmptyRow
C6_DropLandsOnLowestEmptyRow_Step ==
    \A id \in CallerIds :
       tasks[id].pc = "D2" /\ tasks'[id].pc = "D3" =>
          LET c == tasks[id].col
              e == EmptyRows(board, c)
              y == CHOOSE r \in e : \A q \in e : q <= r
          IN /\ e # {}
             /\ \A q \in Rows(height) : q > y => board[q][c].playerId # None
             /\ board'[y][c].playerId = tasks[id].playerId
             /\ \A q \in Rows(height), x \in Cols(width) :
                   <<q, x>> # <<y, c>> => board'[q][x] = board[q][x]
             /\ board'[y][c].validCoordSets = board[y][c].validCoordSets
             /\ placedPieces' = Append(placedPieces, <<y, c>>)

\* C6: the UPDATE of a dropPiece into column c puts the dropping player into
\* the lowest empty row of c (the bottom row when c is empty, else the row
\* directly above the topmost piece), appends that coordinate to
\* placedPieces, and changes no other cell.
C6_DropLandsOnLowestEmptyRow == [][C6_DropLandsOnLowestEmptyRow_Step]_vars

\* on a board of 6 rows two dropPiece calls into column 0 have returned: the
\* first piece lies at row 5, the second at row 4
C6_Witness ==
    /\ height = 6
    /\ tasks[1].pc = "done"
    /\ tasks[1].op = "dropPiece"
    /\ tasks[1].result = "ok"
    /\ placedPieces = <<<<5, 0>>, <<4, 0>>>>
    /\ dropLog = placedPieces
    /\ board[5][0].playerId # None
    /\ board[4][0].playerId # None
    /\ board[3][0].playerId = None

\* ----------------------------------------------------------------------- C7
\* the dropPiece of caller id that ends in this step had written its piece,
\* began after start's startTurn had finished, and every dropPiece before it
\* since start had succeeded
CleanDropEnds(id) ==
    /\ DropEnds(id)
    /\ tasks[id].pc # "D1"
    /\ tasks[id].quiet
    /\ tasks[id].before.placedPieces = dropLog

\* the step condition of C7_FourInALineIsWon
C7_FourInALineIsWon_Step ==
    \A id \in CallerIds :
       /\ CleanDropEnds(id)
       /\ HeldLines(tasks[id].before.board) = {}
       /\ HeldLines(board') # {}
       => /\ tasks'[id].result = "ok"
          /\ gameState' = Won
          /\ {winningSet'[i] : i \in 1 .. Len(winningSet')} \in HeldLines(board')
          /\ currPlayerId' = tasks[id].before.currPlayerId

\* C7: a dropPiece whose piece completes four cells of one player in a line
\* returns successfully with gameState Won, winningSet those four coordinates
\* and currPlayerId as the call found it.
C7_FourInALineIsWon == [][C7_FourInALineIsWon_Step]_vars

\* ----------------------------------------------------------------------- C8
\* the step condition of C8_FullTopRowIsTied
C8_FullTopRowIsTied_Step ==
    /\ \A id \in CallerIds :
          /\ CleanDropEnds(id)
          /\ ~TopRowFull(tasks[id].before.board)
          /\ TopRowFull(board')
          /\ HeldLines(board') = {}
          => tasks'[id].result = "ok" /\ gameState' = Tied
    /\ gameState' = Tied => TopRowFull(board') /\ HeldLines(board') = {}

\* C8: a dropPiece whose piece fills the last empty cell of the top row, with
\* nobody holding four in a line, returns successfully with gameState Tied;
\* and gameState is Tied only with the top row full and no four in a line.
C8_FullTopRowIsTied == [][C8_FullTopRowIsTied_Step]_vars

\* ----------------------------------------------------------------------- C9
\* the step condition of C9_CyclicPlayOrder
C9_CyclicPlayOrder_Step ==
    \A id \in CallerIds :
       /\ DropEnds(id)
       /\ tasks'[id].result = "ok"
       /\ tasks[id].quiet
       /\ ~rosterModified
       /\ Len(gamePlayers) >= 2
       => LET p == tasks[id].playerId
              k == PlayOrderOf(p)
              n == Len(gamePlayers)
          IN /\ tasks[id].before.currPlayerId = p
             /\ k \in 0 .. (n - 1)
             /\ currPlayerId' \in RosterIds
             /\ PlayOrderOf(currPlayerId') = (k + 1) % n
             /\ currPlayerId' # p

\* C9: in a game of n >= 2 players whose roster was not changed since start,
\* a dropPiece that began after start's startTurn had finished and returns
\* successfully was made by the current player, of play order k, and leaves as
\* current player the roster member of play order (k+1) mod n, who is another
\* player.
C9_CyclicPlayOrder == [][C9_CyclicPlayOrder_Step]_vars

\* in a game of three players the third dropPiece has returned and the turn
\* is back at the player of play order 0
C9_Witness ==
    /\ tasks[1].pc = "done"
    /\ tasks[1].op = "dropPiece"
    /\ tasks[1].result = "ok"
    /\ ~rosterModified
    /\ Len(gamePlayers) = 3
    /\ Len(dropLog) = 3
    /\ PlayOrderOf(currPlayerId) = 0

\* ---------------------------------------------------------------------- C10
\* C10: when start has returned successfully, the game has a current player,
\* every roster member has a play order, and the current player is the roster
\* member of play order 0.
C10_StartReturnsWithFirstPlayer ==
    \A id \in CallerIds :
       tasks[id].pc = "done" /\ tasks[id].op = "start" /\ tasks[id].result = "ok" =>
          /\ currPlayerId # None
          /\ \A i \in 1 .. Len(gamePlayers) : gamePlayers[i].playOrder # NoOrder
          /\ PlayOrderOf(currPlayerId) = 0

\* ---------------------------------------------------------------------- C11
\* caller id's last call was a start that returned successfully
StartReturned(id) ==
    tasks[id].pc = "done" /\ tasks[id].op = "start" /\ tasks[id].result = "ok"

Quiescent == \A id \in TaskIds : Free(id)

\* C12: whenever no call is running, gameState is Started if and only if
\* currPlayerId is set, and a currPlayerId that is set names a member of the
\* roster whose playOrder is not none.
C12_StartedIffCurrentPlayer ==
    Quiescent =>
       /\ (gameState = Started) <=> (currPlayerId # None)
       /\ currPlayerId # None =>
             /\ currPlayerId \in RosterIds
             /\ PlayOrderOf(currPlayerId) # NoOrder

\* ---------------------------------------------------------------------- C13
\* the play orders of the roster
PlayOrders == {gamePlayers[i].playOrder : i \in 1 .. Len(gamePlayers)}

\* C13: whenever no call is running, the play orders of the roster of a game
\* that was started (it has a board) are 0 .. n-1, each once, n being the size
\* of the roster; and in a game not yet started (it has no board) every play
\* order is none.
C13_PlayOrdersArePermutation ==
    Quiescent =>
       /\ board # <<>> =>
             /\ PlayOrders = 0 .. (Len(gamePlayers) - 1)
             /\ \A i, k \in 1 .. Len(gamePlayers) :
                   i # k => gamePlayers[i].playOrder # gamePlayers[k].playOrder
       /\ board = <<>> =>
             \A i \in 1 .. Len(gamePlayers) : gamePlayers[i].playOrder = NoOrder

\* ---------------------------------------------------------------------- C14
\* the players named in the list ps
Named(ps) == {ps[i] : i \in 1 .. Len(ps)}

\* the step condition of C14_NoDuplicateRosterEntries
C14_NoDuplicateRosterEntries_Step ==
    /\ \A id \in CallerIds :
          tasks[id].pc = "A1" /\ tasks'[id].pc # "A1" =>
             IF Named(tasks[id].players) \cap RosterIds # {}
               THEN /\ tasks'[id].pc = "done"
                    /\ tasks'[id].result = "PlayerAlreadyExists"
                    /\ gamePlayers' = gamePlayers
               ELSE tasks'[id].pc = "done" => tasks'[id].result = "PlayerAlreadyExists"
    /\ \A i, k \in 1 .. Len(gamePlayers') :
          i # k => gamePlayers'[i].playerId # gamePlayers'[k].playerId
    /\ \A id \in CallerIds, o \in CallerIds :
          /\ id # o
          /\ tasks[id].pc = "A1" /\ tasks[o].pc = "A1"
          /\ tasks[id].players = tasks[o].players
          /\ Len(tasks[id].players) = 1
          /\ Named(tasks[id].players) \cap RosterIds = {}
          /\ tasks'[id].pc # "A1"
          => /\ tasks'[id].pc = "A2"
             /\ Named(tasks[o].players) \subseteq RosterIds'

C15_CallsAreSerialized_Step ==
    \A id \in CallerIds :
       tasks[id].pc = "D2" /\ tasks'[id].pc = "D3" =>
          /\ board = tasks[id].before.board
          /\ placedPieces = tasks[id].before.placedPieces

\* C15: calls on one game take effect one at a time: the UPDATE by which a
\* dropPiece writes the board and placedPieces finds both as the call read
\* them, so that it does not write back pieces that a start which ran in
\* between has removed.  Stated for SpecRace.
C15_CallsAreSerialized == [][C15_CallsAreSerialized_Step]_vars

\* ---------------------------------------------------------------------- C16
\* the step condition of C16_GamesAreIndependent
C16_GamesAreIndependent_Step ==
    /\ queue = <<>> => other' = other /\ TheGame' = TheGame
    /\ \A id \in TaskIds :
          Runs(id) =>
             /\ tasks[id].game = 1 => other' = other
             /\ tasks[id].game = 2 => TheGame' = TheGame

\* C16: a statement of a start, addPlayers, removePlayer, dropPiece or
\* startTurn called for one game leaves the other game's board, placedPieces,
\* gameState, winningSet, currPlayerId, roster and turn records as they are.
\* Stated for SpecGames.
C16_GamesAreIndependent == [][C16_GamesAreIndependent_Step]_vars

\* a dropPiece on the game and a dropPiece on the second game that was called
\* while the first was running have both returned successfully, and each
\* game has its one piece and its one turn record
C16_Witness ==
    /\ \A id \in CallerIds :
          tasks[id].pc = "done" /\ tasks[id].op = "dropPiece" /\ tasks[id].result = "ok"
    /\ tasks[1].game = 1 /\ tasks[2].game = 2
    /\ tasks[1].seen = 0
    /\ Len(gameTurns) = 1 /\ Len(placedPieces) = 1
    /\ Len(other.gameTurns) = 1 /\ Len(other.placedPieces) = 1
    /\ Occupant(board, placedPieces[1]) = gameTurns[1].playerId
    /\ Occupant(other.board, other.placedPieces[1]) = other.gameTurns[1].playerId

\* ---------------------------------------------------------------------- C17
\* the step condition of C17_OneTurnRecordPerSuccessfulDrop
C17_OneTurnRecordPerSuccessfulDrop_Step ==
    /\ \A id \in CallerIds :
          DropEnds(id) =>
             LET n == FoundBy(id).turns IN
             IF tasks'[id].result = "ok"
               THEN /\ Len(gameTurns') = n + 1
                    /\ gameTurns'[n + 1] = [playerId |-> tasks[id].playerId,
                                            location |-> tasks[id].loc]
               ELSE Len(gameTurns') = n
    /\ Len(gameTurns') >= Len(gameTurns)
    /\ SubSeq(gameTurns', 1, Len(gameTurns)) = gameTurns

\* C17: when a dropPiece returns successfully the game has one turn record
\* more than the call found, with the player and the coordinate of the drop;
\* when a dropPiece fails the game has the turn records the call found; and
\* no step of any operation, removePlayer included, changes or removes a turn
\* record.
C17_OneTurnRecordPerSuccessfulDrop == [][C17_OneTurnRecordPerSuccessfulDrop_Step]_vars

\* ---------------------------------------------------------------------- C18
\* the play orders that members of the roster have
TurnOrders == {gamePlayers[i].playOrder : i \in 1 .. Len(gamePlayers)} \ {NoOrder}

\* the play order is inconsistent for a startTurn whose current player is cur
Inconsistent(cur) ==
    \/ cur \notin RosterIds
    \/ PlayOrderOf(cur) = NoOrder
    \/ PlayOrderOf(cur) = Len(gamePlayers) - 1 /\ 0 \notin TurnOrders
    \/ PlayOrderOf(cur) # Len(gamePlayers) - 1 /\ PlayOrderOf(cur) + 1 \notin TurnOrders

\* the step condition of C18_InconsistentPlayOrderIsFatal
C18_InconsistentPlayOrderIsFatal_Step ==
    \A id \in TaskIds :
       tasks[id].pc = "T5" /\ tasks'[id].pc # "T5" =>
          IF Inconsistent(tasks[id].cur)
            THEN /\ tasks'[id].pc \in {"done", "idle"}
                 /\ id \in CallerIds => tasks'[id].result = "Error"
                 /\ currPlayerId' = currPlayerId
                 /\ currPlayerId = tasks[id].cur
            ELSE /\ tasks'[id].pc = "T6"
                 /\ tasks'[id].next \in RosterIds

DropsIntoFullColumn(id) ==
    /\ tasks[id].pc = "D1"
    /\ tasks'[id].pc # "D1"
    /\ board # <<>>
    /\ tasks[id].col \in Cols(width)
    /\ EmptyRows(board, tasks[id].col) = {}

\* the step condition of C19_FullColumnAlwaysInvalidPlacement
C19_FullColumnAlwaysInvalidPlacement_Step ==
    \A id \in CallerIds :
       DropsIntoFullColumn(id) /\ tasks[id].playerId = currPlayerId =>
          /\ tasks'[id].pc = "done"
          /\ tasks'[id].result = "InvalidPiecePlacement"
          /\ GameFields' = GameFields

\* C19 as the claim states it: a dropPiece of the current player into a full
\* column fails with InvalidPiecePlacement and changes nothing, whether the
\* game is Started, Won or Tied.  Stated for SpecFactory.
C19_FullColumnAlwaysInvalidPlacement ==
    [][C19_FullColumnAlwaysInvalidPlacement_Step]_vars

\* the step condition of C19_FullColumnIsRefused
C19_FullColumnIsRefused_Step ==
    \A id \in CallerIds :
       DropsIntoFullColumn(id) =>
          /\ tasks'[id].pc = "done"
          /\ GameFields' = GameFields
          /\ tasks'[id].result =
                IF gameState # Started THEN "InvalidGameState"
                ELSE IF tasks[id].playerId # currPlayerId THEN "NotCurrentPlayer"
                ELSE "InvalidPiecePlacement"

\* C19 as the code has it: a dropPiece into a full column fails and changes
\* nothing in every state of the game; the error is InvalidPiecePlacement
\* when the game is Started and the player is the current player, it is
\* InvalidGameState when the game is Won or Tied, and NotCurrentPlayer when
\* the game is Started and the player is not the current player.  Stated for
\* SpecFactory.
C19_FullColumnIsRefused == [][C19_FullColumnIsRefused_Step]_vars

\* in a started game the current player's dropPiece into a full column has
\* failed with InvalidPiecePlacement
C19_Witness ==
    /\ tasks[1].pc = "done"
    /\ tasks[1].op = "dropPiece"
    /\ tasks[1].result = "InvalidPiecePlacement"
    /\ InPlay
    /\ tasks[1].col \in Cols(width)
    /\ EmptyRows(board, tasks[1].col) = {}
    /\ currPlayerId # None

\* ---------------------------------------------------------------------- C20
\* the step condition of C20_ColumnOutOfBoundsIsRefused
C20_ColumnOutOfBoundsIsRefused_Step ==
    \A id \in CallerIds :
       /\ tasks[id].pc = "D1"
       /\ tasks'[id].pc # "D1"
       /\ InPlay
       /\ tasks[id].playerId = currPlayerId
       /\ tasks[id].col < 0 \/ tasks[id].col >= width
       => /\ tasks'[id].pc = "done"
          /\ tasks'[id].result = "InvalidPiecePlacement"
          /\ GameFields' = GameFields
          /\ gamePlayers' = gamePlayers

\* C20: a dropPiece of the current player of a started game into a column
\* below 0 or at or above the width fails with InvalidPiecePlacement at its
\* first statement, and the board, placedPieces, the turn records, gameState,
\* winningSet, currPlayerId and the roster stay as they are.
C20_ColumnOutOfBoundsIsRefused == [][C20_ColumnOutOfBoundsIsRefused_Step]_vars

\* in a started game with a piece on the board a dropPiece into the column
\* that is the width of the board has failed with InvalidPiecePlacement
C20_Witness ==
    /\ tasks[1].pc = "done"
    /\ tasks[1].op = "dropPiece"
    /\ tasks[1].result = "InvalidPiecePlacement"
    /\ tasks[1].col = width
    /\ InPlay
    /\ currPlayerId # None
    /\ Len(placedPieces) >= 1

\* ---------------------------------------------------------------------- C21
\* C21: a dropPiece call with a game id that no game has fails with
\* NotFoundError, and changes no stored row.
C21_MissingGameIsNotFound_Step ==
    \A id \in CallerIds :
        DropEnds(id) /\ tasks[id].game = 0
          => /\ tasks'[id].result = "NotFoundError"
             /\ UNCHANGED <<gameRow, gamePlayers, gameTurns, other>>

C21_MissingGameIsNotFound == [][C21_MissingGameIsNotFound_Step]_vars

\* ---------------------------------------------------------------------- C22
\* C22: a dropPiece call on a game that was created and never started (its
\* board is NULL) fails with InvalidGameState at its first statement: no piece
\* is placed and no turn is recorded.
C22_NeverStartedGameRejectsDrops_Step ==
    \A id \in CallerIds :
        /\ tasks[id].op = "dropPiece" /\ tasks[id].game = 1
        /\ tasks[id].pc = "D1" /\ tasks'[id].pc # "D1"
        /\ board = <<>>
        => /\ tasks'[id].pc = "done"
           /\ tasks'[id].result = "InvalidGameState"
           /\ UNCHANGED <<gameRow, gamePlayers, gameTurns>>

C22_NeverStartedGameRejectsDrops == [][C22_NeverStartedGameRejectsDrops_Step]_vars

\* two players were added to a game that was never started, and a dropPiece
\* on it has failed with InvalidGameState
C22_Witness ==
    /\ tasks[1].pc = "done"
    /\ tasks[1].op = "dropPiece"
    /\ tasks[1].result = "InvalidGameState"
    /\ board = <<>>
    /\ placedPieces = <<>>
    /\ gameTurns = <<>>
    /\ Len(gamePlayers) = 2

\* ---------------------------------------------------------------------- C23
\* C23: a start call on a game with fewer than two players in its roster
\* fails with TooFewPlayers, and none of its statements changes the board,
\* gameState, placedPieces, winningSet, currPlayerId or a play order.
C23_StartNeedsTwoPlayers_Step ==
    \A id \in CallerIds :
        /\ tasks[id].op = "start" /\ ~Free(id)
        /\ tasks'[id] # tasks[id]
        /\ Len(gamePlayers) < 2
        => /\ \/ tasks'[id].pc = "S2"
              \/ tasks'[id].pc = "done" /\ tasks'[id].result = "TooFewPlayers"
           /\ UNCHANGED <<gameRow, gamePlayers, gameTurns>>

C23_StartNeedsTwoPlayers == [][C23_StartNeedsTwoPlayers_Step]_vars

\* a start on a game with one player has failed with TooFewPlayers
C23_Witness ==
    /\ tasks[1].pc = "done"
    /\ tasks[1].op = "start"
    /\ tasks[1].result = "TooFewPlayers"
    /\ Len(gamePlayers) = 1
    /\ board = <<>>
    /\ currPlayerId = None

\* ---------------------------------------------------------------------- C24
\* C24: a removePlayer call for a player who is not in the roster of the game
\* fails with NotFoundError, and the roster, the play orders and the game row
\* stay as they are.
C24_RemoveNonMemberIsNotFound_Step ==
    \A id \in CallerIds :
        /\ tasks[id].op = "removePlayer" /\ ~Free(id)
        /\ tasks'[id] # tasks[id]
        /\ tasks[id].playerId \notin RosterIds
        => /\ tasks'[id].pc = "done"
           /\ tasks'[id].result = "NotFoundError"
           /\ UNCHANGED <<gameRow, gamePlayers, gameTurns>>

C24_RemoveNonMemberIsNotFound == [][C24_RemoveNonMemberIsNotFound_Step]_vars

\* a removePlayer has failed with NotFoundError on a started game that has
\* two other players
C24_Witness ==
    /\ tasks[1].pc = "done"
    /\ tasks[1].op = "removePlayer"
    /\ tasks[1].result = "NotFoundError"
    /\ Len(gamePlayers) = 2
    /\ InPlay
    /\ currPlayerId # None

\* ---------------------------------------------------------------------- C25
\* C25: once start(gameId, false) has returned on a game with two or more
\* players, gameState is Started, and currPlayerId is none and every play
\* order of the roster is none, for as long as the caller makes no other call.
C25_StartWithoutAutoAdvance ==
    tasks[1].op = "start" /\ tasks[1].pc = "done" /\ tasks[1].result = "ok"
      => /\ gameState = Started
         /\ currPlayerId = None
         /\ \A i \in 1 .. Len(gamePlayers) : gamePlayers[i].playOrder = NoOrder

\* ---------------------------------------------------------------------- C26
\* C26: an addPlayers or removePlayer call that succeeds returns the number of
\* players the roster has after the change (as a number or as its decimal
\* text): 1 after the first player is added, 0 after the only player is
\* removed.
C26_RosterCallsReturnTheSize ==
    \A id \in CallerIds :
        /\ tasks[id].pc = "done" /\ tasks[id].result = "ok"
        /\ tasks[id].op \in {"addPlayers", "removePlayer"}
        => /\ tasks[id].count.type \in {"number", "string"}
           /\ tasks[id].count.value = Len(gamePlayers)

\* ---------------------------------------------------------------------- C27
\* C27: in every reachable state winningSet is set only if gameState is Won:
\* it is NULL while the game is not started, started or tied.
C27_WinningSetOnlyWhenWon ==
    winningSet # <<>> => gameState = Won

\* a won game with its winning set, on which a dropPiece has been refused
C27_Witness ==
    /\ gameState = Won
    /\ winningSet # <<>>
    /\ winningSet \in {[i \in 1 .. LineLen |-> l[i]] : l \in [1 .. LineLen -> Cells]}
    /\ tasks[1].pc = "done"
    /\ tasks[1].op = "dropPiece"
    /\ tasks[1].result = "InvalidGameState"

\* ---------------------------------------------------------------------- C29
\* C29: on every board of height 4 or more and width 4 or more, the candidate
\* lines of the bottom-left corner cell (row height-1, column 0) include no
\* line that goes left, and include the up-right line.
C29_BottomLeftCornerLines ==
    board # <<>> /\ height >= 4 /\ width >= 4
      => LET lines == board[height - 1][0].validCoordSets IN
         /\ \A j \in 1 .. Len(lines) : lines[j][2] # <<height - 1, -1>>
         /\ \A j \in 1 .. Len(lines) : \A k \in 1 .. Len(lines[j]) : lines[j][k][2] >= 0
         /\ \E j \in 1 .. Len(lines) :
               lines[j] = <<<<height - 1, 0>>, <<height - 2, 1>>,
                            <<height - 3, 2>>, <<height - 4, 3>>>>

\* the board of six rows and seven columns has been made: its bottom-left
\* corner cell has the lines up, up-right and right
C29_Witness ==
    /\ board # <<>>
    /\ height = 6 /\ width = 7
    /\ Len(board[5][0].validCoordSets) = 3
    /\ board[5][0].validCoordSets[2] = <<<<5, 0>>, <<4, 1>>, <<3, 2>>, <<2, 3>>>>

\* ---------------------------------------------------------------------- C30
\* C30: given a board that gravity drops have made, also one of seven columns,
\* and its placedPieces, checkForGameEnd reports Won exactly when four cells
\* in a row, a column or a diagonal, one next to the other, hold the same
\* player, and the winningSet it returns is such a line.
C30_WonIffFourInALine ==
    tasks[1].op = "checkForGameEnd" /\ tasks[1].pc = "done"
      => LET end == tasks[1].end IN
         /\ ~end.threw
         /\ end.state = Won <=> HeldLines(board) # {}
         /\ end.state = Won
              => {end.winningSet[k] : k \in 1 .. Len(end.winningSet)} \in HeldLines(board)

\* ---------------------------------------------------------------------- C31
\* C31: for every placed piece and every candidate line of it, checkForGameEnd
\* reads the reference occupant from the first coordinate of the line, not
\* from a position that depends on the index of the line: it reads no
\* position outside the four coordinates, and it returns without a fault,
\* also for a cell that has five candidate lines.
C31_ReferenceOccupantIsTheAnchor ==
    tasks[1].op = "checkForGameEnd" /\ tasks[1].pc = "done"
      => /\ ~tasks[1].end.threw
         /\ \A i \in 1 .. Len(placedPieces) :
              LET lines == board[placedPieces[i][1]][placedPieces[i][2]].validCoordSets IN
              \A j \in 1 .. Len(lines) :
                  /\ ReferenceIndex(j) \in 1 .. Len(lines[j])
                  /\ ReferenceIndex(j) = 1

\* ---------------------------------------------------------------------- C32
\* the lines of four cells that begin at (y,x), step one cell at a time up,
\* up-left, up-right, left or right, and stay on the board
FiveDirections == {<<-1, 0>>, <<-1, -1>>, <<-1, 1>>, <<0, -1>>, <<0, 1>>}
LinesFrom(y, x) ==
    {l \in {[k \in 1 .. 4 |-> <<y + (k - 1) * d[1], x + (k - 1) * d[2]>>] : d \in FiveDirections} :
        \A k \in 1 .. 4 : l[k] \in Cells}

\* C32: for every height and width of 1 or more and every cell (y,x), the
\* validCoordSets of the cell are exactly the lines of four coordinates that
\* begin at (y,x), go up, up-left, up-right, left or right, and have every
\* coordinate on the board: none is out of bounds, none is missing, none is
\* listed twice.
C32_ValidCoordSetsAreTheLinesInBounds ==
    board # <<>>
      => \A y \in Rows(height), x \in Cols(width) :
           LET lines == board[y][x].validCoordSets IN
           /\ {lines[j] : j \in 1 .. Len(lines)} = LinesFrom(y, x)
           /\ Len(lines) = Cardinality(LinesFrom(y, x))
           /\ \A j \in 1 .. Len(lines) : Len(lines[j]) = 4 /\ lines[j][1] = <<y, x>>

\* the board of four rows and seven columns has been made: the cell (3,3)
\* has all five lines, the cell (0,0) the right line only
C32_Witness ==
    /\ board # <<>>
    /\ height = 4 /\ width = 7
    /\ Len(board[3][3].validCoordSets) = 5
    /\ board[0][0].validCoordSets = << <<<<0, 0>>, <<0, 1>>, <<0, 2>>, <<0, 3>>>> >>

\* ---------------------------------------------------------------------- C33
\* C33: in every state that drops on a started game reach, the occupied cells
\* of each column are a block from the bottom row upward, no piece above an
\* empty cell; so the top row is full only when every cell of the board is
\* occupied.
C33_PiecesRestOnPieces ==
    board # <<>>
      => /\ \A y \in Rows(height), x \in Cols(width) :
               board[y][x].playerId # None /\ y + 1 \in Rows(height)
                 => board[y + 1][x].playerId # None
         /\ TopRowFull(board)
               => \A y \in Rows(height), x \in Cols(width) : board[y][x].playerId # None

\* on the board of two rows and two columns two drops that returned have
\* filled column 0, and column 1 is empty
C33_Witness ==
    /\ InPlay
    /\ height = 2 /\ width = 2
    /\ Len(dropLog) = 2
    /\ board[0][0].playerId # None /\ board[1][0].playerId # None
    /\ board[0][1].playerId = None /\ board[1][1].playerId = None

\* ---------------------------------------------------------------------- C34
\* every ordering of the array a
Orderings(a) ==
    {[i \in 1 .. Len(a) |-> a[f[i]]] :
        f \in {g \in [1 .. Len(a) -> 1 .. Len(a)] :
                  \A i \in 1 .. Len(a) : \A k \in 1 .. Len(a) : i # k => g[i] # g[k]}}

\* C34: when startTurn assigns the play order of a game that starts, every
\* ordering of the roster is an outcome the shuffle can give: each of the n!
\* assignments of the play orders 0..n-1 can occur, and of two players either
\* one can become the first player.
C34_EveryPlayOrderIsPossible ==
    \A id \in TaskIds :
        tasks[id].op = "startTurn" /\ tasks[id].pc = "T2"
          => LET ids == [i \in 1 .. Len(gamePlayers) |-> gamePlayers[i].playerId] IN
             /\ Shuffle(ids) = Orderings(ids)
             /\ Len(ids) = 2 => {o[1] : o \in Shuffle(ids)} = {ids[1], ids[2]}

\* ---------------------------------------------------------------------- C35
\* the candidate-line table of board b
LineTable(b) == [y \in DOMAIN b |-> [x \in DOMAIN b[y] |-> b[y][x].validCoordSets]]

\* C35: the candidate-line table of the game is a function of the height and
\* the width of the board alone: no statement of dropPiece changes it, and
\* the board that start writes has the same table and every cell empty.
C35_LineTableIsFixed_Step ==
    /\ board' # <<>>
         => LineTable(board') = LineTable(CreateInitializedBoard(height, width))
    /\ board # <<>> /\ board' # <<>> => LineTable(board') = LineTable(board)
    /\ \A id \in CallerIds :
          tasks[id].op = "start" /\ tasks[id].pc = "S3" /\ tasks'[id].pc = "done"
            => \A y \in Rows(height), x \in Cols(width) : board'[y][x].playerId = None

C35_LineTableIsFixed == [][C35_LineTableIsFixed_Step]_vars

\* a game with pieces on its board and a turn record was started again: the
\* board is empty and has the lines of its cells
C35_Witness ==
    /\ tasks[1].pc = "done" /\ tasks[1].op = "start" /\ tasks[1].result = "ok"
    /\ Len(gameTurns) >= 1
    /\ board # <<>>
    /\ \A y \in Rows(height), x \in Cols(width) : board[y][x].playerId = None
    /\ \E y \in Rows(height), x \in Cols(width) : board[y][x].validCoordSets # <<>>

\* ---------------------------------------------------------------------- C36
\* C36: whenever the checkForGameEnd of a dropPiece call, made right after its
\* piece and its turn record were written, reports a win, the winning player
\* it reports is the player of that call: the call never throws "Game is won,
\* but not by current player".
C36_WinnerIsTheDropper_Step ==
    \A id \in CallerIds :
        /\ tasks[id].op = "dropPiece" /\ tasks[id].game = 1
        /\ tasks[id].pc = "D4" /\ tasks'[id].pc # "D4"
        => LET end == CheckForGameEnd(board, placedPieces) IN
           /\ end.state = Won => end.winningPlayerId = tasks[id].playerId
           /\ tasks'[id].result # "Error"

C36_WinnerIsTheDropper == [][C36_WinnerIsTheDropper_Step]_vars

\* the checkForGameEnd of a dropPiece has reported a win of the player of the
\* call, and the call goes on to _updateGameState
C36_Witness ==
    /\ tasks[1].op = "dropPiece"
    /\ tasks[1].pc = "D5"
    /\ tasks[1].end.state = Won
    /\ tasks[1].end.winningPlayerId = tasks[1].playerId
    /\ Len(placedPieces) = 4

\* ---------------------------------------------------------------------- C37
\* C37: a started game on a board of height h and width w takes at most h x w
\* successful drops, and once no call is running the game is never Started
\* with every column full: by then gameState is Won or Tied.
C37_FullBoardEndsTheGame ==
    (\A id \in TaskIds : Free(id)) /\ InPlay
      => /\ Len(dropLog) <= height * width
         /\ \E x \in Cols(width) : board[0][x].playerId = None

\* ---------------------------------------------------------------------- C38
\* C38: in every reachable state of a game that has a board, a cell of the
\* board has a player exactly when its coordinate is in placedPieces.
C38_OccupiedIffPlaced ==
    board # <<>>
      => \A y \in Rows(height), x \in Cols(width) :
            board[y][x].playerId # None
              <=> \E i \in 1 .. Len(placedPieces) : placedPieces[i] = <<y, x>>

\* a started game after two drops: two cells are occupied, and they are the
\* two placed pieces
C38_Witness ==
    /\ InPlay
    /\ Len(placedPieces) = 2
    /\ Len(dropLog) = 2
    /\ placedPieces[1] # placedPieces[2]
    /\ \A i \in 1 .. 2 : Occupant(board, placedPieces[i]) # None

\* ---------------------------------------------------------------------- C39
\* C39: while no dropPiece call is running, the turn records of the game in
\* the order they were made correspond one to one to its placedPieces: as
\* many records as pieces, the location of record i is placedPieces[i] and
\* its player holds that cell; also after start has started the game again.
C39_TurnRecordsMatchPlacedPieces ==
    (\A id \in TaskIds : tasks[id].op = "dropPiece" => Free(id))
      => /\ Len(gameTurns) = Len(placedPieces)
         /\ \A i \in 1 .. Len(gameTurns) :
               i <= Len(placedPieces)
                 => /\ gameTurns[i].location = placedPieces[i]
                    /\ gameTurns[i].playerId = Occupant(board, placedPieces[i])

\* ---------------------------------------------------------------------- C40
\* C40: in a started game whose roster an addPlayers or a removePlayer call
\* has changed, a legal dropPiece of the current player that does not end the
\* game completes: the startTurn it runs after the piece was placed does not
\* throw, and it makes a member of the roster the current player.
C40_RosterChangeKeepsTheTurnGoing_Step ==
    \A id \in CallerIds :
        /\ DropEnds(id) /\ tasks[id].game = 1
        /\ tasks[id].pc \in {"T1", "T2", "T3", "T4", "T5", "T6"}
        /\ rosterModified
        => /\ tasks'[id].result = "ok"
           /\ currPlayerId' \in RosterIds

C40_RosterChangeKeepsTheTurnGoing == [][C40_RosterChangeKeepsTheTurnGoing_Step]_vars

====
